---- MODULE Spec2Model ----
(***************************************************************************)
(* Model of the RAG pipeline of app/rag_pipeline.py (class RAGPipeline)    *)
(* and of the HTTP handlers of app/main.py that drive it.                  *)
(*                                                                         *)
(* Python objects are modelled by reference: self.vector_store and the     *)
(* retriever held by self.qa_chain are references into `heap`, so that an  *)
(* in-place insertion (FAISS.add_documents) is seen through every          *)
(* reference while a re-assignment of self.vector_store is not.            *)
(* The two directories of app/config.py (vector_store_path and             *)
(* documents_path) are the variables `store` and `documents`.              *)
(***************************************************************************)
EXTENDS Integers, Sequences, FiniteSets, TLC

VARIABLES
    vector_store,   \* self.vector_store: None or a reference into heap
    qa_chain,       \* self.qa_chain: None or the reference its retriever holds
    heap,           \* the FAISS objects: reference -> sequence of chunks
    store,          \* the directory settings.vector_store_path on disk
    documents,      \* the directory settings.documents_path on disk
    asks,           \* per caller: the position of its ask() call
    resp,           \* what the last call returned or raised
    init_done,      \* history: an initialize_vector_store() call has returned
    faults,         \* history: the calls that failed for a reason outside the program
    hl              \* the highlight_context() call of ask_question: its locals

vars ==
    <<vector_store, qa_chain, heap, store, documents, asks, resp, init_done, faults,
      hl>>

(***************************************************************************)
(* Bounds of the model.                                                    *)
(***************************************************************************)
MaxChunks == 1      \* a file splits into at most this many chunks
MaxIndex == 3       \* uploads are issued while the index stays this small
MaxFaults == 1      \* embedding and disk failures injected in one run
RetrievalK == 2     \* settings.retrieval_k (env-configurable, default 4)
MaxContexts == 2    \* contexts handed to one highlight_context call

(***************************************************************************)
(* Files.  A path is the sequence of its components.                       *)
(***************************************************************************)
DocumentsDir == "documents"
DocA == <<DocumentsDir, "a.txt">>
DocSubA == <<DocumentsDir, "sub", "a.txt">>
DocB == <<DocumentsDir, "b.md">>
Gone == <<DocumentsDir, "gone.txt">>      \* a path at which no file exists

TxtPaths == <<DocA, DocSubA>>     \* matches of **/*.txt, in listing order
MdPaths == <<DocB>>               \* matches of **/*.md
DocPaths == {DocA, DocSubA, DocB}

\* What a file holds: bytes that decode as utf-8 or not, and (when they do)
\* the number of chunks the splitter cuts the text into (0: an empty file).
FileContents ==
    {[utf8 |-> TRUE, size |-> n] : n \in 0..MaxChunks}
        \cup {[utf8 |-> FALSE, size |-> 0]}

None == "None"
ObjIds == {"o1", "o2", "o3"}
Clients == {"c1", "c2"}
Questions == {"a.txt", "b.md"}    \* a question is about the text of a file name

Range(s) == {s[i] : i \in 1..Len(s)}

RECURSIVE Flatten(_)
Flatten(ss) == IF ss = <<>> THEN <<>> ELSE Head(ss) \o Flatten(Tail(ss))

\* os.path.basename
Basename(path) == path[Len(path)]

\* str.endswith(('.txt', '.md')) on the upload's file name
AllowedName(name) == name \in {"a.txt", "b.md"}

(***************************************************************************)
(* Loading, splitting, building, retrieving: the pure parts.               *)
(***************************************************************************)
\* TextLoader(file_path, encoding="utf-8").load() succeeds
Readable(docs, path) ==
    /\ path \in DOMAIN docs.files
    /\ docs.files[path].utf8

\* The Document TextLoader returns: metadata["source"] and page_content.
\* The text of a file is identified by its base name and its length in chunks.
LoadFile(docs, path) ==
    [source |-> path, content |-> <<Basename(path), docs.files[path].size>>]

Present(docs, paths) == SelectSeq(paths, LAMBDA p : p \in DOMAIN docs.files)

\* RAGPipeline.load_documents: txt_loader.load() + md_loader.load()
load_documents(docs) ==
    LET found == Present(docs, TxtPaths) \o Present(docs, MdPaths)
    IN  IF ~docs.exists THEN [err |-> "Ingestion", docs |-> <<>>]
        ELSE IF \E i \in 1..Len(found) : ~Readable(docs, found[i])
             THEN [err |-> "Ingestion", docs |-> <<>>]
             ELSE [err |-> None,
                   docs |-> [i \in 1..Len(found) |-> LoadFile(docs, found[i])]]

\* The chunks of one Document: each keeps the source of its parent.
ChunksOf(doc) ==
    [i \in 1..doc.content[2] |->
        [source |-> doc.source, text |-> <<doc.content[1], doc.content[2], i>>]]

\* RAGPipeline.split_documents
split_documents(docs) == Flatten([i \in 1..Len(docs) |-> ChunksOf(docs[i])])

\* FAISS.from_documents: embeds the texts, then sizes the index by the first
\* vector, which raises on an empty list.
ExtendIndex(index, chunks) == index \o chunks

\* a build that keeps what the live index held
FreshIndex_merge(chunks) ==
    IF vector_store = None THEN chunks ELSE ExtendIndex(heap[vector_store], chunks)

FreshIndex(chunks) == ExtendIndex(<<>>, chunks)

\* an empty list accepted
EmptyInput_never(chunks) == FALSE

\* FAISS.from_documents raises on an empty list (it sizes the index by the
\* first embedding vector).
EmptyInput(chunks) == chunks = <<>>

\* The retriever's similarity_search(question, k): the chunks whose text is
\* about the question rank first, ties by position in the index; at most k.
Relevant(q, chunk) == chunk.text[1] = q

Take(s, k) == IF Len(s) <= k THEN s ELSE SubSeq(s, 1, k)

Retrieve(index, q, k) ==
    Take(SelectSeq(index, LAMBDA c : Relevant(q, c))
             \o SelectSeq(index, LAMBDA c : ~Relevant(q, c)), k)

\* sources = list(set([os.path.basename(doc.metadata.get("source")) ...]))
SourceName(chunk) == Basename(chunk.source)

SourceSet(source_docs) == {SourceName(source_docs[i]) : i \in 1..Len(source_docs)}

\* list(set(...)): every element once, in an order the build chooses
Listings(S) == {s \in [1..Cardinality(S) -> S] : Range(s) = S}

\* without set(): one entry per retrieved chunk
Sources_all(source_docs) ==
    {[i \in 1..Len(source_docs) |-> SourceName(source_docs[i])]}

\* the lists ask may return as "sources"
Sources(source_docs) == Listings(SourceSet(source_docs))

\* contexts = [doc.page_content for doc in source_docs]
Contexts(source_docs) == [i \in 1..Len(source_docs) |-> source_docs[i].text]

\* What the language model may answer from the retrieved contexts.
DontKnow == <<"unknown", 0, 0>>
Answers(q, contexts) == {DontKnow} \cup Range(contexts)

(***************************************************************************)
(* State shared by the operations.                                         *)
(***************************************************************************)
NoStore == [exists |-> FALSE, valid |-> FALSE, index |-> <<>>]
IdleAsk == [pc |-> "idle", question |-> None, source_docs |-> <<>>]
IdleHighlight == [pc |-> "idle"]
Quiet == \A c \in Clients : asks[c].pc = "idle"

\* A fresh Python object: a reference neither field holds.
Alloc == CHOOSE o \in ObjIds : o \notin {vector_store, qa_chain}

\* Objects no field refers to are collected.
Collect(h, vs, qa) == [o \in ObjIds |-> IF o \in {vs, qa} THEN h[o] ELSE <<>>]

\* index.ntotal of the live vector store
Total(h, vs) == Len(h[vs])

\* What can go wrong outside the program during one call.
Faults(st) ==
    IF faults >= MaxFaults THEN {"none"}
    ELSE {"none", "embed", "save_early", "save_partial"}
            \cup (IF st.exists THEN {} ELSE {"mkdir"})

Counted(fault) == IF fault = "none" THEN faults ELSE faults + 1
AskFaults == {"none", "remote"}

\* RAGPipeline.save_vector_store: Path(path).mkdir(parents=True, exist_ok=True),
\* then vector_store.save_local(path).  A failing save_local has written
\* nothing yet ("save_early") or leaves files that no longer load
\* ("save_partial").
save_vector_store(st, index, fault) ==
    IF fault = "mkdir" /\ ~st.exists
    THEN [ok |-> FALSE, store |-> st]
    ELSE IF fault = "save_early"
    THEN [ok |-> FALSE, store |-> [st EXCEPT !.exists = TRUE]]
    ELSE IF fault = "save_partial"
    THEN [ok |-> FALSE, store |-> [exists |-> TRUE, valid |-> FALSE, index |-> <<>>]]
    ELSE [ok |-> TRUE, store |-> [exists |-> TRUE, valid |-> TRUE, index |-> index]]

\* the flag ignored
UseExisting_any(st, force_rebuild) == st.exists

\* vector_store_path.exists() and not force_rebuild
UseExisting(st, force_rebuild) == st.exists /\ ~force_rebuild

\* FAISS.load_local succeeds on the directory
Loadable(st) == st.exists /\ st.valid

InitResp(force, status, steps, total) ==
    [op |-> "initialize", force_rebuild |-> force, status |-> status,
     steps |-> steps, total |-> total]

(***************************************************************************)
(* RAGPipeline.initialize_vector_store(force_rebuild), as called by        *)
(* lifespan (force_rebuild = False) and by rebuild_vector_store (True).    *)
(***************************************************************************)
LoadExisting(force) ==
    IF ~Loadable(store)
    THEN /\ resp' = InitResp(force, "Storage", <<"load_vector_store">>, 0)
         /\ UNCHANGED <<vector_store, qa_chain, heap, store, init_done, faults>>
    ELSE LET o == Alloc
         IN  /\ vector_store' = o
             /\ qa_chain' = o
             /\ heap' = Collect([heap EXCEPT ![o] = store.index], o, o)
             /\ init_done' = TRUE
             /\ resp' = InitResp(force, "ok",
                                 <<"load_vector_store", "_create_qa_chain">>,
                                 Len(store.index))
             /\ UNCHANGED <<store, faults>>

BuildFrom(force, chunks, fault) ==
    LET o == Alloc
        saved == save_vector_store(store, FreshIndex(chunks), fault)
        built == <<"load_documents", "split_documents", "create_vector_store">>
    IN  IF fault = "embed"
        THEN /\ resp' = InitResp(force, "RemoteCall", built, 0)
             /\ UNCHANGED <<vector_store, qa_chain, heap, store, init_done>>
        ELSE IF ~saved.ok
        THEN /\ vector_store' = o
             /\ heap' = Collect([heap EXCEPT ![o] = FreshIndex(chunks)], o, qa_chain)
             /\ store' = saved.store
             /\ resp' = InitResp(force, "Storage", built \o <<"save_vector_store">>, 0)
             /\ UNCHANGED <<qa_chain, init_done>>
        ELSE /\ vector_store' = o
             /\ qa_chain' = o
             /\ heap' = Collect([heap EXCEPT ![o] = FreshIndex(chunks)], o, o)
             /\ store' = saved.store
             /\ init_done' = TRUE
             /\ resp' = InitResp(force, "ok",
                            built \o <<"save_vector_store", "_create_qa_chain">>,
                            Len(chunks))

BuildNew(force) ==
    LET loaded == load_documents(documents)
        chunks == split_documents(loaded.docs)
    IN  IF loaded.err # None
        THEN /\ resp' = InitResp(force, loaded.err, <<"load_documents">>, 0)
             /\ UNCHANGED <<vector_store, qa_chain, heap, store, init_done, faults>>
        ELSE IF EmptyInput(chunks)
        THEN /\ resp' = InitResp(force, "EmptyCorpus",
                    <<"load_documents", "split_documents", "create_vector_store">>, 0)
             /\ UNCHANGED <<vector_store, qa_chain, heap, store, init_done, faults>>
        ELSE \E fault \in Faults(store) :
                /\ BuildFrom(force, chunks, fault)
                /\ faults' = Counted(fault)

initialize_vector_store(force) ==
    /\ Quiet
    /\ IF UseExisting(store, force) THEN LoadExisting(force) ELSE BuildNew(force)
    /\ UNCHANGED <<documents, asks, hl>>

(***************************************************************************)
(* RAGPipeline.add_documents(file_paths)                                   *)
(***************************************************************************)
\* if self.vector_store is None: raise
AddRefused(vs, qa) == vs = None

\* `loaded`: the files of the call TextLoader had read when it returned
AddResp(op, status, loaded, total) ==
    [op |-> op, status |-> status, loaded |-> loaded, total |-> total]

\* the files of the list before the first that cannot be read
RECURSIVE ReadablePrefix(_, _)
ReadablePrefix(docs, paths) ==
    IF paths = <<>> \/ ~Readable(docs, Head(paths)) THEN <<>>
    ELSE <<Head(paths)>> \o ReadablePrefix(docs, Tail(paths))

\* new_docs: the loop over file_paths completes before anything is inserted
LoadAll(docs, paths) == [i \in 1..Len(paths) |-> LoadFile(docs, paths[i])]

NewChunks(docs, paths) == split_documents(LoadAll(docs, paths))

\* each file inserted as soon as it is read
InsertedBeforeFailure_eager(docs, paths) ==
    NewChunks(docs, ReadablePrefix(docs, paths))

\* What the loop over file_paths has put into the index when a file fails to
\* load: nothing, the documents read so far are in the local list new_docs.
InsertedBeforeFailure(docs, paths) == <<>>

\* self.vector_store.add_documents(chunks), then self.save_vector_store()
Insert(op, n, grown, fault) ==
    LET saved == save_vector_store(store, grown, fault)
    IN  IF fault = "embed"
        THEN /\ resp' = AddResp(op, "RemoteCall", n, 0)
             /\ UNCHANGED <<vector_store, qa_chain, heap, store>>
        ELSE /\ heap' = [heap EXCEPT ![vector_store] = grown]
             /\ store' = saved.store
             /\ resp' = AddResp(op, IF saved.ok THEN "ok" ELSE "Storage", n,
                                IF saved.ok THEN Len(grown) ELSE 0)
             /\ UNCHANGED <<vector_store, qa_chain>>

\* The call on the documents directory `docs`; `op` names the caller.
add_documents(op, paths, docs) ==
    IF AddRefused(vector_store, qa_chain)
    THEN /\ resp' = AddResp(op, "NotInitialized", 0, 0)
         /\ UNCHANGED <<vector_store, qa_chain, heap, store, faults>>
    ELSE IF \E i \in 1..Len(paths) : ~Readable(docs, paths[i])
    THEN /\ resp' = AddResp(op, "Ingestion", Len(ReadablePrefix(docs, paths)), 0)
         /\ heap' = [heap EXCEPT ![vector_store] =
                        ExtendIndex(@, InsertedBeforeFailure(docs, paths))]
         /\ UNCHANGED <<vector_store, qa_chain, store, faults>>
    ELSE \E fault \in Faults(store) :
            /\ Insert(op, Len(paths),
                      ExtendIndex(heap[vector_store], NewChunks(docs, paths)), fault)
            /\ faults' = Counted(fault)

\* The caller keeps the index within the model's bound.
Fits(docs, paths) ==
    IF vector_store = None \/ \E i \in 1..Len(paths) : ~Readable(docs, paths[i])
    THEN TRUE
    ELSE Len(heap[vector_store]) + Len(NewChunks(docs, paths)) <= MaxIndex

\* A call names one file or two.
ListsOf(S) == {<<x>> : x \in S} \cup {<<x, y>> : x \in S, y \in S}

PathLists == ListsOf(DocPaths \cup {Gone})

AddDocuments(paths) ==
    /\ Quiet
    /\ Fits(documents, paths)
    /\ add_documents("add_documents", paths, documents)
    /\ init_done' = init_done
    /\ UNCHANGED <<documents, asks, hl>>

(***************************************************************************)
(* POST /upload: upload_documents(files)                                   *)
(***************************************************************************)
\* the file names requests carry: one the handler accepts, one it refuses
UploadNames == {"a.txt", "c.pdf"}
Uploads ==
    [name : {n \in UploadNames : AllowedName(n)}, content : FileContents]
        \cup {[name |-> n, content |-> [utf8 |-> TRUE, size |-> 0]] :
                    n \in {m \in UploadNames : ~AllowedName(m)}}
UploadLists == ListsOf(Uploads)

\* the files before the first one whose extension is refused
RECURSIVE Accepted(_)
Accepted(files) ==
    IF files = <<>> \/ ~AllowedName(Head(files).name) THEN <<>>
    ELSE <<Head(files)>> \o Accepted(Tail(files))

\* file_path = documents_path / file.filename
UploadPath(file) == <<DocumentsDir, file.name>>

\* open(file_path, "wb"); shutil.copyfileobj(file.file, f), file after file
RECURSIVE WriteFiles(_, _)
WriteFiles(files_on_disk, files) ==
    IF files = <<>> THEN files_on_disk
    ELSE WriteFiles(
            [p \in DOMAIN files_on_disk \cup {UploadPath(Head(files))} |->
                IF p = UploadPath(Head(files)) THEN Head(files).content
                ELSE files_on_disk[p]],
            Tail(files))

upload_documents(files) ==
    LET kept == Accepted(files)
        written == [exists |-> TRUE, files |-> WriteFiles(documents.files, kept)]
        uploaded_files == [i \in 1..Len(kept) |-> UploadPath(kept[i])]
    IN  /\ Quiet
        /\ documents' = written
        /\ IF Len(kept) < Len(files)
           THEN /\ resp' = AddResp("upload", "BadRequest", 0, 0)
                /\ UNCHANGED <<vector_store, qa_chain, heap, store, faults>>
           ELSE /\ Fits(written, uploaded_files)
                /\ add_documents("upload", uploaded_files, written)
        /\ init_done' = init_done
        /\ UNCHANGED <<asks, hl>>

(***************************************************************************)
(* RAGPipeline.ask(question), in the steps another ask can run between.    *)
(***************************************************************************)
\* a guard on the other field, as add_documents and health_check have it
AskRefused_vs(vs, qa) == vs = None

\* if self.qa_chain is None: raise
AskRefused(vs, qa) == qa = None

AskError(c, q, status) ==
    [op |-> "ask", client |-> c, question |-> q, status |-> status]

\* The index the chain's retriever searches.
Retrieved(h, qa, q) == Retrieve(h[qa], q, RetrievalK)

\* a search that consumes the entry it ranks first
AfterAsk_pop(h) == [o \in ObjIds |-> IF h[o] = <<>> THEN h[o] ELSE Tail(h[o])]

\* What ask leaves in the pipeline's FAISS objects: nothing.
AfterAsk(h) == h

\* no call has returned since an ask went on its way
Running == [op |-> "ask", status |-> "running"]

AskStart(c, q) ==
    /\ asks[c].pc = "idle"
    /\ IF AskRefused(vector_store, qa_chain)
       THEN /\ resp' = AskError(c, q, "NotInitialized")
            /\ UNCHANGED asks
       ELSE /\ asks' = [asks EXCEPT ![c] =
                            [pc |-> "invoke", question |-> q, source_docs |-> <<>>]]
            /\ resp' = Running
    /\ UNCHANGED <<vector_store, qa_chain, heap, store, documents, init_done, faults, hl>>

\* self.qa_chain.invoke: the retriever embeds the question and searches
AskRetrieve(c) ==
    /\ asks[c].pc = "invoke"
    /\ \E fault \in AskFaults :
       IF fault = "remote"
       THEN /\ resp' = AskError(c, asks[c].question, "RemoteCall")
            /\ asks' = [asks EXCEPT ![c] = IdleAsk]
       ELSE /\ asks' = [asks EXCEPT ![c].pc = "generate",
                                    ![c].source_docs =
                                        Retrieved(heap, qa_chain, asks[c].question)]
            /\ resp' = Running
    /\ heap' = AfterAsk(heap)
    /\ UNCHANGED <<vector_store, qa_chain, store, documents, init_done, faults, hl>>

\* the language model answers; ask builds and returns the record
AskReturn(c) ==
    /\ asks[c].pc = "generate"
    /\ \E fault \in AskFaults,
          answer \in Answers(asks[c].question, Contexts(asks[c].source_docs)),
          sources \in Sources(asks[c].source_docs) :
       resp' = IF fault = "remote"
               THEN AskError(c, asks[c].question, "RemoteCall")
               ELSE [op |-> "ask", client |-> c, question |-> asks[c].question,
                     status |-> "ok", answer |-> answer, sources |-> sources,
                     contexts |-> Contexts(asks[c].source_docs),
                     source_documents |-> asks[c].source_docs]
    /\ asks' = [asks EXCEPT ![c] = IdleAsk]
    /\ heap' = AfterAsk(heap)
    /\ UNCHANGED <<vector_store, qa_chain, store, documents, init_done, faults, hl>>

(***************************************************************************)
(* RAGPipeline.highlight_context(answer, contexts), as ask_question calls  *)
(* it on the record ask returned.  A text is the sequence of its           *)
(* characters.                                                             *)
(***************************************************************************)
MinSentenceLen == 20
Whitespace == {" ", "\n"}         \* what \s and str.strip() take for blank
Boundary == {".", "!", "?"}
Marker == <<"*", "*">>

Min(S) == CHOOSE x \in S : \A y \in S : x <= y

\* The places re.split(r'(?<=[.!?])\s+', s) can cut at: a blank that follows
\* a boundary character.  The cut takes the whole run of blanks.
Cuts(s) == {i \in 2..Len(s) : s[i] \in Whitespace /\ s[i - 1] \in Boundary}

RunEnd(s, i) == Min({j \in i..Len(s) : j = Len(s) \/ s[j + 1] \notin Whitespace})

RECURSIVE Split(_)
Split(s) ==
    IF Cuts(s) = {} THEN <<s>>
    ELSE LET i == Min(Cuts(s))
         IN  <<SubSeq(s, 1, i - 1)>> \o Split(SubSeq(s, RunEnd(s, i) + 1, Len(s)))

\* str.strip()
RECURSIVE Strip(_)
Strip(s) ==
    IF s = <<>> THEN s
    ELSE IF Head(s) \in Whitespace THEN Strip(Tail(s))
    ELSE IF s[Len(s)] \in Whitespace THEN Strip(SubSeq(s, 1, Len(s) - 1))
    ELSE s

StartsWith(s, u) == Len(u) <= Len(s) /\ SubSeq(s, 1, Len(u)) = u

\* u in s
Contains(s, u) ==
    \E p \in 1..(Len(s) - Len(u) + 1) : SubSeq(s, p, p + Len(u) - 1) = u

\* count = 1: only the first occurrence
RECURSIVE Replace_first(_, _, _)
Replace_first(s, old, new) ==
    IF s = <<>> THEN s
    ELSE IF StartsWith(s, old) THEN new \o SubSeq(s, Len(old) + 1, Len(s))
    ELSE <<Head(s)>> \o Replace_first(Tail(s), old, new)

\* str.replace(old, new), old not empty: scans from the left and resumes
\* after each occurrence it replaces.
RECURSIVE Replace(_, _, _)
Replace(s, old, new) ==
    IF s = <<>> THEN s
    ELSE IF StartsWith(s, old)
    THEN new \o Replace(SubSeq(s, Len(old) + 1, Len(s)), old, new)
    ELSE <<Head(s)>> \o Replace(Tail(s), old, new)

\* any sentence that is not empty
Qualifies_short(answer, clean_sentence) ==
    Len(clean_sentence) > 0 /\ Contains(answer, clean_sentence)

\* len(clean_sentence) > 20 and clean_sentence in answer
Qualifies(answer, clean_sentence) ==
    Len(clean_sentence) > MinSentenceLen /\ Contains(answer, clean_sentence)

\* f"**{clean_sentence}**"
Bold(clean_sentence) == Marker \o clean_sentence \o Marker

\* highlight_context is entered: highlighted_answer = answer
HighlightEnter ==
    /\ hl.pc = "call"
    /\ hl' = [hl EXCEPT !.pc = IF hl.contexts = <<>> THEN "return" ELSE "loop",
                        !.highlighted_answer = hl.answer]
    /\ UNCHANGED <<vector_store, qa_chain, heap, store, documents, asks, resp,
                   init_done, faults>>

\* one turn of the inner loop: a sentence of the context at hand
HighlightSentence ==
    /\ hl.pc = "loop"
    /\ LET sentences == Split(hl.contexts[hl.context])
           clean_sentence == Strip(sentences[hl.sentence])
           last == hl.sentence = Len(sentences)
       IN  hl' = [hl EXCEPT
                    !.highlighted_answer =
                        IF Qualifies(hl.answer, clean_sentence)
                        THEN Replace(@, clean_sentence, Bold(clean_sentence))
                        ELSE @,
                    !.sentence = IF last THEN 1 ELSE @ + 1,
                    !.context = IF last THEN @ + 1 ELSE @,
                    !.pc = IF last /\ hl.context = Len(hl.contexts)
                           THEN "return" ELSE "loop"]
    /\ UNCHANGED <<vector_store, qa_chain, heap, store, documents, asks, resp,
                   init_done, faults>>

\* QuestionResponse.highlighted_answer: Optional[str]
NoText == [null |-> TRUE]
SomeText(text) == [null |-> FALSE, text |-> text]

\* highlighted_answer if highlighted_answer != result["answer"] else None
ResponseHighlighted(answer, highlighted_answer) ==
    IF highlighted_answer # answer THEN SomeText(highlighted_answer) ELSE NoText

\* ask_question builds the QuestionResponse and returns it
AskQuestionReturn ==
    /\ hl.pc = "return"
    /\ resp' = [op |-> "ask_question", answer |-> hl.answer,
                highlighted_answer |->
                    ResponseHighlighted(hl.answer, hl.highlighted_answer)]
    /\ hl' = [hl EXCEPT !.pc = "done"]
    /\ UNCHANGED <<vector_store, qa_chain, heap, store, documents, asks,
                   init_done, faults>>

(***************************************************************************)
(* GET /health, and the process ending and starting again.                 *)
(***************************************************************************)
\* is_initialized = rag_pipeline.vector_store is not None; total_docs is the
\* live store's index.ntotal, None when there is no live store
Health ==
    /\ resp' = [op |-> "health",
                vector_store_initialized |-> vector_store # None,
                total_documents |-> IF vector_store # None
                                    THEN Total(heap, vector_store) ELSE None]
    /\ UNCHANGED <<vector_store, qa_chain, heap, store, documents, asks, init_done, faults,
                   hl>>

\* RAGPipeline.__init__ in a new process: the directories are what they were
Restart ==
    /\ vector_store' = None
    /\ qa_chain' = None
    /\ heap' = [o \in ObjIds |-> <<>>]
    /\ asks' = [c \in Clients |-> IdleAsk]
    /\ init_done' = FALSE
    /\ resp' = [op |-> "start"]
    /\ hl' = IdleHighlight
    /\ UNCHANGED <<store, documents, faults>>

(***************************************************************************)
(* The specifications.                                                     *)
(*   Spec      the pipeline object driven call by call, in any order       *)
(*   SpecHttp  the application: lifespan, then the handlers of main.py     *)
(*             that change the pipeline or report on it                    *)
(*   SpecAsk   the pipeline with two callers whose asks interleave         *)
(*   SpecHealth  the pipeline driven call by call, and GET /health         *)
(*   SpecHighlight  highlight_context and the response of ask_question,    *)
(*             on answers and contexts around the length threshold         *)
(***************************************************************************)
\* The documents directory a deployment starts with.
\* No directory; or some of the files, each a text of the same length; or one
\* file of any content (empty and undecodable included).
InitialDocuments ==
    {[exists |-> FALSE, files |-> <<>>]}
        \cup {[exists |-> TRUE, files |-> [p \in S |-> [utf8 |-> TRUE, size |-> n]]] :
                    S \in SUBSET DocPaths, n \in 1..MaxChunks}
        \cup {[exists |-> TRUE, files |-> [p \in {DocA} |-> content]] :
                    content \in FileContents}

Init ==
    /\ vector_store = None
    /\ qa_chain = None
    /\ heap = [o \in ObjIds |-> <<>>]
    /\ store = NoStore
    /\ documents \in InitialDocuments
    /\ asks = [c \in Clients |-> IdleAsk]
    /\ resp = [op |-> "start"]
    /\ init_done = FALSE
    /\ faults = 0
    /\ hl = IdleHighlight

Initialize == \E force \in BOOLEAN : initialize_vector_store(force)

Add == \E paths \in PathLists : AddDocuments(paths)

Ask(c) ==
    \/ \E q \in Questions : AskStart(c, q)
    \/ AskRetrieve(c)
    \/ AskReturn(c)

Next ==
    \/ Initialize
    \/ Add
    \/ Ask("c1")
    \/ Restart

Spec == Init /\ [][Next]_vars

\* main.py: the application serves once lifespan's initialize has returned;
\* when it raises, start-up fails and the process ends.
Starting == ~init_done /\ resp.op = "start"
Serving == init_done

Lifespan == Starting /\ initialize_vector_store(FALSE)

Rebuild == Serving /\ initialize_vector_store(TRUE)

UploadDocuments == Serving /\ \E files \in UploadLists : upload_documents(files)

NextHttp ==
    \/ Lifespan
    \/ Rebuild
    \/ UploadDocuments
    \/ Restart

SpecHttp == Init /\ [][NextHttp]_vars

\* Two callers of the pipeline: the steps of their asks interleave.
NextAsk ==
    \/ Initialize
    \/ Ask("c1")
    \/ Ask("c2")

SpecAsk == Init /\ [][NextAsk]_vars

\* ask_question after ask has returned: the answer and the contexts of the
\* record are what the language model wrote and the retrieved chunks' texts.
\* Sentences around the length threshold, built on single letters.
Rep(c, n) == [i \in 1..n |-> c]
Long == Rep("a", MinSentenceLen) \o <<".">>           \* one character above
Longer == <<"a">> \o Long                             \* holds Long
Short == Rep("b", MinSentenceLen - 1) \o <<".">>      \* at the threshold
Lap == [i \in 1..(MinSentenceLen + 1) |-> IF i % 2 = 1 THEN "n" ELSE "a"]
LapTwice == Lap \o <<"a", "n">>                       \* holds Lap at 1 and at 3
Other == Rep("c", MinSentenceLen) \o <<"!">>

AnswerTexts ==
    {<<>>, <<"n", "o", ".">>, Long, Longer, Short, LapTwice,
     Long \o <<" ">> \o Long,
     Short \o <<" ">> \o Long,
     Longer \o <<" ">> \o Short}

ContextTexts ==
    {<<>>, Long, Longer, Short, Lap, Other,
     Long \o <<" ">> \o Longer,
     Longer \o <<"\n", " ">> \o Long,
     Short \o <<" ">> \o Lap,
     <<" ">> \o Other \o <<" ">> \o Long \o <<"\n">>,
     Lap \o <<" ">> \o Long}

ContextLists == UNION {[1..n -> ContextTexts] : n \in 0..MaxContexts}

InitHighlight ==
    /\ vector_store = None
    /\ qa_chain = None
    /\ heap = [o \in ObjIds |-> <<>>]
    /\ store = NoStore
    /\ documents = [exists |-> FALSE, files |-> <<>>]
    /\ asks = [c \in Clients |-> IdleAsk]
    /\ resp = [op |-> "start"]
    /\ init_done = FALSE
    /\ faults = 0
    /\ \E answer \in AnswerTexts, contexts \in ContextLists :
          hl = [pc |-> "call", answer |-> answer, contexts |-> contexts,
                context |-> 1, sentence |-> 1, highlighted_answer |-> <<>>]

NextHighlight ==
    \/ HighlightEnter
    \/ HighlightSentence
    \/ AskQuestionReturn

SpecHighlight == InitHighlight /\ [][NextHighlight]_vars

\* The pipeline driven call by call, with GET /health asked in between.
NextHealth ==
    \/ Initialize
    \/ Add
    \/ Ask("c1")
    \/ Health
    \/ Restart

SpecHealth == Init /\ [][NextHealth]_vars

(***************************************************************************)
(* Vocabulary of the properties.                                           *)
(***************************************************************************)
\* The pipeline is Ready when ask is served.
Ready == ~AskRefused(vector_store, qa_chain)

Pipeline == <<vector_store, qa_chain, heap, store>>

\* The chunks of the files in a documents directory.
CorpusChunks(docs) ==
    UNION {{[source |-> p, text |-> <<Basename(p), docs.files[p].size, i>>] :
                i \in 1..docs.files[p].size} : p \in DOMAIN docs.files}

\* An index that holds exactly those chunks, each once.
IsCorpus(index, docs) ==
    /\ Range(index) = CorpusChunks(docs)
    /\ Len(index) = Cardinality(CorpusChunks(docs))

Returned(op, status) == resp.op = op /\ resp.status = status

(***************************************************************************)
(* C1: while no initialize has completed successfully (none was called, or *)
(* each failed part-way), every ask fails as not initialized: no ask gets  *)
(* under way, no record is returned, and the live index, the QA chain and  *)
(* the persisted index stay as they were.                                  *)
(***************************************************************************)
C1_AskNeedsInitialize ==
    [][(resp'.op = "ask" /\ ~init_done)
          => /\ resp'.status = "NotInitialized"
             /\ UNCHANGED Pipeline]_vars

\* an ask refused after an initialize that failed once the live index was set
C1_Witness ==
    /\ Returned("ask", "NotInitialized")
    /\ ~init_done
    /\ vector_store # None

(***************************************************************************)
(* C2: a successful initialize ends in Ready.  With a persisted index and  *)
(* force_rebuild false the live index is the persisted index and the       *)
(* documents are not read; otherwise the live index holds exactly the      *)
(* chunks of the documents now in the documents directory, and so does     *)
(* the persisted index.                                                    *)
(***************************************************************************)
C2_InitializePaths ==
    [][(resp'.op = "initialize" /\ resp'.status = "ok")
          => /\ qa_chain' = vector_store'
             /\ vector_store' # None
             /\ IF store.exists /\ ~resp'.force_rebuild
                THEN /\ heap'[vector_store'] = store.index
                     /\ store' = store
                     /\ "load_documents" \notin Range(resp'.steps)
                ELSE /\ IsCorpus(heap'[vector_store'], documents)
                     /\ store'.valid
                     /\ store'.index = heap'[vector_store']]_vars

\* loaded from disk, an index that is not what the documents would give
C2_Witness ==
    /\ Returned("initialize", "ok")
    /\ ~resp.force_rebuild
    /\ resp.steps[1] = "load_vector_store"
    /\ ~IsCorpus(heap[vector_store], documents)

(***************************************************************************)
(* C3: an initialize that finds zero documents or zero chunks raises the   *)
(* empty-corpus error.                                                     *)
(***************************************************************************)
\* the step is an initialize that read the documents and found no chunk
FoundNothing ==
    /\ resp'.op = "initialize"
    /\ ~UseExisting(store, resp'.force_rebuild)
    /\ documents.exists
    /\ \A p \in DOMAIN documents.files : documents.files[p].utf8
    /\ CorpusChunks(documents) = {}

\* C3 as claimed: ... and the pipeline is not Ready afterwards, at startup and
\* after a rebuild from Ready alike.
C3_EmptyCorpusNotReady ==
    [][FoundNothing
          => /\ resp'.status = "EmptyCorpus"
             /\ AskRefused(vector_store', qa_chain')]_vars

\* C3 as amended: ... and the pipeline is left as it was: not Ready at startup,
\* still serving the previous index after a rebuild from Ready.
C3_EmptyCorpusLeavesPipeline ==
    [][FoundNothing
          => /\ resp'.status = "EmptyCorpus"
             /\ UNCHANGED Pipeline
             /\ ~init_done => AskRefused(vector_store', qa_chain')]_vars

\* a rebuild that found nothing, on a pipeline that still answers
C3_Witness ==
    /\ Returned("initialize", "EmptyCorpus")
    /\ resp.force_rebuild
    /\ Ready

(***************************************************************************)
(* C4: in every state in which ask would fail as not initialized,          *)
(* add_documents fails and changes neither the live index nor the          *)
(* persisted index.                                                        *)
(***************************************************************************)
C4_AddNeedsReady ==
    [][(resp'.op = "add_documents" /\ AskRefused(vector_store, qa_chain))
          => /\ resp'.status # "ok"
             /\ UNCHANGED <<vector_store, heap, store>>]_vars

(***************************************************************************)
(* C5: a successful add_documents on a Ready pipeline with n chunks,       *)
(* adding m chunks, leaves n + m chunks with the n earlier ones in place,  *)
(* and the index the QA chain's retriever searches is that grown index.    *)
(***************************************************************************)
C5_AddGrowsServedIndex ==
    [][\A paths \in PathLists :
          (AddDocuments(paths) /\ Ready /\ resp'.status = "ok")
             => /\ Len(heap'[vector_store'])
                    = Len(heap[vector_store]) + Len(NewChunks(documents, paths))
                /\ SubSeq(heap'[vector_store'], 1, Len(heap[vector_store]))
                    = heap[vector_store]
                /\ heap'[qa_chain'] = heap'[vector_store']]_vars

(***************************************************************************)
(* C6: when a file of an add_documents call cannot be read, the index is   *)
(* not corrupted.                                                          *)
(***************************************************************************)
\* C6 as claimed: ... the chunks of the files before the failing one are in
\* the live index when the error is raised.
C6_PriorFilesInserted ==
    [][\A paths \in PathLists :
          (AddDocuments(paths) /\ resp'.status = "Ingestion")
             => heap'[vector_store']
                    = heap[vector_store]
                        \o NewChunks(documents, ReadablePrefix(documents, paths))]_vars

\* C6 as amended: ... no chunk of the call is in the live index when the error
\* is raised: the live index, the QA chain and the persisted index are as they
\* were before the call.
C6_FailedLoadInsertsNothing ==
    [][(resp'.op \in {"add_documents", "upload"} /\ resp'.status = "Ingestion")
          => UNCHANGED Pipeline]_vars

\* the call failed on a file after reading another
C6_Witness ==
    /\ Returned("add_documents", "Ingestion")
    /\ resp.loaded > 0
    /\ Len(heap[vector_store]) > 0

(***************************************************************************)
(* C7: after a successful rebuild from Ready the live index is a new       *)
(* index holding exactly the chunks of the files now in the documents      *)
(* directory, and the persisted index and the index the QA chain           *)
(* retrieves from are equal to it.                                         *)
(***************************************************************************)
C7_RebuildReplaces ==
    [][(Ready /\ resp'.op = "initialize" /\ resp'.force_rebuild /\ resp'.status = "ok")
          => /\ vector_store' # vector_store
             /\ IsCorpus(heap'[vector_store'], documents)
             /\ store'.valid
             /\ store'.index = heap'[vector_store']
             /\ qa_chain' = vector_store']_vars

\* a rebuild has replaced an index on the serving application
C7_Witness ==
    /\ Returned("initialize", "ok")
    /\ resp.force_rebuild
    /\ Serving
    /\ DocA \in DOMAIN documents.files
    /\ Len(heap[vector_store]) = documents.files[DocA].size

(***************************************************************************)
(* C8: initialize(force_rebuild = false) on a store location that is       *)
(* absent or holds no valid index falls back to building from the          *)
(* documents and reaches Ready when there is at least one document.        *)
(***************************************************************************)
HasDocuments ==
    /\ documents.exists
    /\ \A p \in DOMAIN documents.files : documents.files[p].utf8
    /\ CorpusChunks(documents) # {}

C8_InvalidStoreFallsBack ==
    [][(/\ resp'.op = "initialize"
        /\ ~resp'.force_rebuild
        /\ ~Loadable(store)
        /\ HasDocuments
        /\ faults' = faults)
          => /\ resp'.status = "ok"
             /\ ~AskRefused(vector_store', qa_chain')]_vars

(***************************************************************************)
(* C9: an ask changes nothing in the pipeline, and with the steps of two   *)
(* callers' asks interleaved each ask returns a record an ask running      *)
(* alone on the same index returns.                                        *)
(***************************************************************************)
C9_AsksReadOnly ==
    [][resp'.op = "ask"
          => /\ UNCHANGED Pipeline
             /\ resp'.status = "ok"
                  => LET alone == Retrieve(heap[qa_chain], resp'.question, RetrievalK)
                     IN  /\ resp'.source_documents = alone
                         /\ resp'.contexts = Contexts(alone)
                         /\ resp'.sources \in Listings(SourceSet(alone))
                         /\ resp'.answer
                                \in Answers(resp'.question, Contexts(alone))]_vars

\* an ask has returned while the other caller's ask was under way
C9_Witness ==
    /\ Returned("ask", "ok")
    /\ \E c \in Clients : c # resp.client /\ asks[c].pc = "generate"

(***************************************************************************)
(* C10: the sources ask returns hold no entry twice and stand for every    *)
(* retrieved chunk.                                                        *)
(***************************************************************************)
RetrievedPaths == {resp.source_documents[i].source : i \in 1..Len(resp.source_documents)}

\* C10 as claimed: ... one entry for each distinct source path.
C10_OneSourcePerPath ==
    Returned("ask", "ok")
        => /\ Len(resp.sources) = Cardinality(Range(resp.sources))
           /\ Len(resp.sources) = Cardinality(RetrievedPaths)

\* C10 as amended: ... one entry for each distinct base name of a source path:
\* paths that differ only in their directory give one entry.
C10_OneSourcePerName ==
    Returned("ask", "ok")
        => /\ Len(resp.sources) = Cardinality(Range(resp.sources))
           /\ Range(resp.sources) = {Basename(p) : p \in RetrievedPaths}

\* two retrieved chunks of one file, named once
C10_Witness ==
    /\ Returned("ask", "ok")
    /\ Len(resp.source_documents) > 1
    /\ Cardinality(RetrievedPaths) = 1
    /\ Len(resp.sources) = 1

(***************************************************************************)
(* Vocabulary of the highlighting properties.                              *)
(***************************************************************************)
\* The sentence units of the contexts, trimmed, in context-then-sentence order.
Units(context) == [i \in 1..Len(Split(context)) |-> Strip(Split(context)[i])]

AllUnits(contexts) == Flatten([i \in 1..Len(contexts) |-> Units(contexts[i])])

\* The places at which u occurs in s.
Occurrences(s, u) ==
    {p \in 1..(Len(s) - Len(u) + 1) : SubSeq(s, p, p + Len(u) - 1) = u}

\* A unit matches: longer than 20 characters and verbatim in the answer.
UnitMatches(answer, u) == Len(u) > 20 /\ Occurrences(answer, u) # {}

\* The occurrences a scan from the left meets that do not overlap one it
\* met before.
Leftmost(s, u) ==
    CHOOSE P \in SUBSET Occurrences(s, u) :
        \A p \in Occurrences(s, u) :
            p \in P <=> ~\E q \in P : q < p /\ p < q + Len(u)

\* s with emphasis markers put before and after the n characters at each
\* place of P.
WrapAt(s, P, n) ==
    LET Shift(i) == 2 * Cardinality({p \in P : p <= i})
                        + 2 * Cardinality({p \in P : p + n - 1 < i})
    IN  [j \in 1..(Len(s) + 4 * Cardinality(P)) |->
            IF \E i \in 1..Len(s) : i + Shift(i) = j
            THEN s[CHOOSE i \in 1..Len(s) : i + Shift(i) = j]
            ELSE "*"]

\* The text after the units were taken in order, each matching unit wrapped
\* in the text as it then stands: at every occurrence, or at the leftmost
\* occurrences that do not overlap.
RECURSIVE Emphasized(_, _, _, _)
Emphasized(answer, text, units, every) ==
    IF units = <<>> THEN text
    ELSE LET u == Head(units)
             P == IF every THEN Occurrences(text, u) ELSE Leftmost(text, u)
         IN  Emphasized(answer,
                        IF UnitMatches(answer, u) THEN WrapAt(text, P, Len(u))
                        ELSE text,
                        Tail(units), every)

(***************************************************************************)
(* C11: highlight_context returns the answer as it is when no sentence     *)
(* unit matches, with an empty list of contexts in particular; and the     *)
(* response's highlighted_answer is null exactly when the text returned    *)
(* equals the answer.                                                      *)
(***************************************************************************)
C11_NoMatchNoHighlight ==
    hl.pc = "done"
        => /\ (\A i \in 1..Len(AllUnits(hl.contexts)) :
                    ~UnitMatches(hl.answer, AllUnits(hl.contexts)[i]))
                  => hl.highlighted_answer = hl.answer
           /\ hl.contexts = <<>> => hl.highlighted_answer = hl.answer
           /\ resp.highlighted_answer = NoText
                  <=> hl.highlighted_answer = hl.answer

\* a unit of 20 characters stands in the answer, and nothing is highlighted
C11_Witness ==
    /\ hl.pc = "done"
    /\ \E i \in 1..Len(AllUnits(hl.contexts)) :
          /\ Len(AllUnits(hl.contexts)[i]) = 20
          /\ Occurrences(hl.answer, AllUnits(hl.contexts)[i]) # {}
    /\ resp.highlighted_answer = NoText

(***************************************************************************)
(* C12: highlight_context takes the sentence units in context-then-        *)
(* sentence order; a unit longer than 20 characters that occurs in the     *)
(* answer is wrapped in emphasis markers in the text highlighted so far,   *)
(* any other unit changes nothing.                                         *)
(***************************************************************************)
\* C12 as claimed: ... wrapped at every occurrence.
C12_EveryOccurrenceWrapped ==
    hl.pc = "done"
        => hl.highlighted_answer
              = Emphasized(hl.answer, hl.answer, AllUnits(hl.contexts), TRUE)

\* C12 as amended: ... wrapped at every occurrence met scanning from the left
\* that does not overlap an occurrence already wrapped.
C12_LeftmostOccurrencesWrapped ==
    hl.pc = "done"
        => hl.highlighted_answer
              = Emphasized(hl.answer, hl.answer, AllUnits(hl.contexts), FALSE)

\* a matching unit occurs twice in the answer, the occurrences overlapping
C12_Witness ==
    /\ hl.pc = "done"
    /\ \E i \in 1..Len(AllUnits(hl.contexts)) :
          LET u == AllUnits(hl.contexts)[i]
          IN  /\ UnitMatches(hl.answer, u)
              /\ Leftmost(hl.answer, u) # Occurrences(hl.answer, u)
    /\ hl.highlighted_answer # hl.answer

(***************************************************************************)
(* C13: whenever the pipeline has a live index, after any initialize,      *)
(* rebuild or add_documents call has returned or raised, the persisted     *)
(* index is a loadable copy of it (so that a restart followed by           *)
(* initialize(force_rebuild = false) restores it).                         *)
(***************************************************************************)
C13_PersistedEqualsLive ==
    vector_store # None
        => /\ Loadable(store)
           /\ store.index = heap[vector_store]

(***************************************************************************)
(* C14: the live index is set exactly when the QA chain is set, the        *)
(* chain's retriever reads the live index, and so /health reports          *)
(* initialized exactly when ask is served, with the size of the index ask  *)
(* retrieves from.                                                         *)
(***************************************************************************)
C14_ChainReadsLiveIndex ==
    /\ vector_store # None <=> qa_chain # None
    /\ qa_chain # None => qa_chain = vector_store
    /\ resp.op = "health"
          => /\ resp.vector_store_initialized <=> Ready
             /\ Ready => resp.total_documents = Len(heap[qa_chain])

====
